---- MODULE Spec2Model ----
(***************************************************************************)
(* PanelExtensionAdapter (packages/studio-base/src/components/             *)
(* PanelExtensionAdapter/PanelExtensionAdapter.tsx) as a state machine.    *)
(*                                                                         *)
(* One action is one event of the single-threaded event loop: the handler  *)
(* that runs, the React state updates it makes, and the whole commit that  *)
(* follows (layout-effect cleanups, layout effects in declaration order,   *)
(* passive effects, and the re-renders they schedule).                     *)
(***************************************************************************)
EXTENDS Integers, Sequences, FiniteSets, TLC

----------------------------------------------------------------------------
\* Bounds of the model

MaxPanelIds == 2     \* uuid() values that are ever generated
MaxInits == 2        \* initPanel invocations (extension contexts handed out)
MaxRenders == 2      \* invocations of the extension's render function
MaxDupDone == 1      \* repeated calls of a done callback
MaxTopics == 2       \* length of a subscribe() argument
MaxStamp == 3        \* largest preview stamp, in half seconds
MaxStartSec == 1
MaxSiblings == 2
MaxSettings == 2
MaxHandlers == 4
MaxSwaps == 1     \* largest start time, whole seconds

\* A number of seconds is held as a count of half seconds
HalfSecNsec == (10 ^ 9) \div 2

Topics == {"/a", "/b"}
Datatypes == {"d1", "d2"}
Fields == {"topics", "currentFrame"}
\* two distinct empty objects, two distinct non-empty ones
Configs == {"E1", "E2", "A", "B"}
AllCapabilities == {"advertise", "callServices"}

NoFn == 0
NoError == "none"
NoHover == [type |-> "none", componentId |-> "none", value |-> 0]
NoTime == [sec |-> -1, nsec |-> 0]

PanelIds == 1..MaxPanelIds

\* ChangePanelMenuItem: the panel types of the list, the panel context (none
\* outside a panel), the anchor element, the layout
PanelTypes == {"3D", "Plot"}
NoPanelContext == [type |-> "undefined", id |-> "undefined"]
PanelContexts ==
    {NoPanelContext, [type |-> "3D", id |-> "3D!a"],
     [type |-> "Plot", id |-> "Plot!b"]}
NoElement == "undefined"
MosaicRoots == {"root1", "root2"}
WindowPaths == {"first", "second"}

----------------------------------------------------------------------------
VARIABLES
    mounted,            \* the adapter component is mounted
    hostError,          \* error thrown out of the adapter's render pass
    config,             \* props.config
    initialState,       \* initialState.current
    panelId,            \* useState(() => uuid())
    error,              \* useState<Error | undefined>()
    watchedFields,      \* useState(new Set())
    subscribedTopics,   \* useState<string[]>([])
    renderFn,           \* useState<RenderFn | undefined>(); NoFn or the
                        \* number of the panel instance that supplied it
    slowRender,         \* useState(false)
    advertisementsRef,  \* useRef(new Map()): insertion-ordered entries
    buildRenderState,   \* number of the render-state builder in use
    renderingRef,       \* useRef<boolean>(false)
    hoverValue,         \* timeline interaction state: the hover value
    capabilities,       \* playerState.capabilities
    startTime,          \* playerState.activeData?.startTime
    subscriptions,      \* pipeline subscription registry, by subscriber id
    publishers,         \* pipeline publisher registry, by publisher id
    pauseTokens,        \* tokens handed out by pauseFrame: id, times resumed
    contexts,           \* extension contexts passed to initPanel, in order
    invocations,        \* invocations of a render function, in order
    subscribedAppSettings, \* useState<string[]>([])
    appSettings,        \* useState(new Map()): the keys it holds
    handlers,           \* the handlers map of the app-settings effect that
                        \* ran last: its [key, handler] entries
    listeners,          \* change listeners held by the configuration store
    published,          \* topics of the messages passed to pipeline.publish
    serviceCalls,       \* services passed to pipeline.callService
    siblingPanels,      \* requests passed to openSiblingPanel
    watchedSoFar,       \* fields passed to watch since the last initPanel
    panelContext,       \* ChangePanelMenuItem: useContext(PanelContext)
    anchorEl,           \* ChangePanelMenuItem: useState(undefined)
    overSubMenu,        \* ChangePanelMenuItem: useState(false)
    mosaicRoot,         \* what mosaicActions.getRoot() returns
    windowPath,         \* what mosaicWindowActions.getPath() returns
    swapPanelCalls,     \* the payloads passed to swapPanel, in order
    lastOp              \* the event that produced the current state

vars == <<mounted, hostError, config, initialState, panelId, error,
          watchedFields, subscribedTopics, renderFn, slowRender,
          advertisementsRef, buildRenderState, renderingRef, hoverValue,
          capabilities, startTime, subscriptions, publishers, pauseTokens,
          contexts, invocations, subscribedAppSettings, appSettings,
          handlers, listeners, published, serviceCalls, siblingPanels,
          watchedSoFar, panelContext, anchorEl, overSubMenu, mosaicRoot,
          windowPath, swapPanelCalls, lastOp>>

\* The program state as one record, so that the effects of a commit compose
State ==
    [mounted |-> mounted, hostError |-> hostError, config |-> config,
     initialState |-> initialState, panelId |-> panelId, error |-> error,
     watchedFields |-> watchedFields, subscribedTopics |-> subscribedTopics,
     renderFn |-> renderFn, slowRender |-> slowRender,
     advertisementsRef |-> advertisementsRef,
     buildRenderState |-> buildRenderState, renderingRef |-> renderingRef,
     hoverValue |-> hoverValue, capabilities |-> capabilities,
     startTime |-> startTime, subscriptions |-> subscriptions,
     publishers |-> publishers, pauseTokens |-> pauseTokens,
     contexts |-> contexts, invocations |-> invocations,
     subscribedAppSettings |-> subscribedAppSettings,
     appSettings |-> appSettings, handlers |-> handlers,
     listeners |-> listeners, published |-> published,
     serviceCalls |-> serviceCalls, siblingPanels |-> siblingPanels,
     watchedSoFar |-> watchedSoFar, panelContext |-> panelContext,
     anchorEl |-> anchorEl, overSubMenu |-> overSubMenu,
     mosaicRoot |-> mosaicRoot, windowPath |-> windowPath,
     swapPanelCalls |-> swapPanelCalls]

Becomes(s, op) ==
    /\ mounted' = s.mounted
    /\ hostError' = s.hostError
    /\ config' = s.config
    /\ initialState' = s.initialState
    /\ panelId' = s.panelId
    /\ error' = s.error
    /\ watchedFields' = s.watchedFields
    /\ subscribedTopics' = s.subscribedTopics
    /\ renderFn' = s.renderFn
    /\ slowRender' = s.slowRender
    /\ advertisementsRef' = s.advertisementsRef
    /\ buildRenderState' = s.buildRenderState
    /\ renderingRef' = s.renderingRef
    /\ hoverValue' = s.hoverValue
    /\ capabilities' = s.capabilities
    /\ startTime' = s.startTime
    /\ subscriptions' = s.subscriptions
    /\ publishers' = s.publishers
    /\ pauseTokens' = s.pauseTokens
    /\ contexts' = s.contexts
    /\ invocations' = s.invocations
    /\ subscribedAppSettings' = s.subscribedAppSettings
    /\ appSettings' = s.appSettings
    /\ handlers' = s.handlers
    /\ listeners' = s.listeners
    /\ published' = s.published
    /\ serviceCalls' = s.serviceCalls
    /\ siblingPanels' = s.siblingPanels
    /\ watchedSoFar' = s.watchedSoFar
    /\ panelContext' = s.panelContext
    /\ anchorEl' = s.anchorEl
    /\ overSubMenu' = s.overSubMenu
    /\ mosaicRoot' = s.mosaicRoot
    /\ windowPath' = s.windowPath
    /\ swapPanelCalls' = s.swapPanelCalls
    /\ lastOp' = op

----------------------------------------------------------------------------
\* Collaborators

\* uuid(): an identifier that was not handed out before
uuid(prev) == prev + 1

\* (a comparison by object identity, which no configuration passes)
isEqualIdentity(c) == FALSE

\* isEqual(config, {})
isEqual(c) == c \in {"E1", "E2"}

\* (a toSec that drops the nanoseconds)
toSecWhole(t) == 2 * t.sec

\* toSec(time): sec + nsec * 1e-9
toSec(t) == 2 * t.sec + t.nsec \div HalfSecNsec

\* A React state setter: ignored once the component is unmounted
SetState(s, field, value) ==
    IF s.mounted THEN [s EXCEPT ![field] = value] ELSE s

\* MessagePipeline.setSubscriptions(id, payloads)
setSubscriptions(s, id, payloads) ==
    [s EXCEPT !.subscriptions[id] = payloads]

\* MessagePipeline.setPublishers(id, payloads)
setPublishers(s, id, payloads) ==
    [s EXCEPT !.publishers[id] = payloads]

\* MessagePipeline.pauseFrame(id): hands out a new token
pauseFrame(s, id) ==
    [s EXCEPT !.pauseTokens = Append(@, [id |-> id, resumed |-> 0])]

\* resumeFrame() of token t
resumeFrame(s, t) ==
    [s EXCEPT !.pauseTokens[t].resumed = @ + 1]

\* setHoverValue(value)
setHoverValue(s, value) == [s EXCEPT !.hoverValue = value]

\* clearHoverValue(componentId): clears the hover value that component set
clearHoverValue(s, componentId) ==
    IF s.hoverValue.componentId = componentId
    THEN [s EXCEPT !.hoverValue = NoHover]
    ELSE s

----------------------------------------------------------------------------
\* The done callback handed to the render function with invocation i

\* (a done callback without the doneCalled guard)
DoneCallbackUnguarded(s, i) ==
    [resumeFrame([s EXCEPT !.invocations[i].doneCalls = @ + 1],
                 s.invocations[i].token)
        EXCEPT !.renderingRef = FALSE]

\* (a done callback that does not release renderingRef)
DoneCallbackKeepsLock(s, i) ==
    LET s0 == [s EXCEPT !.invocations[i].doneCalls = @ + 1]
    IN  IF s.invocations[i].doneCalls > 0
        THEN s0
        ELSE resumeFrame(s0, s.invocations[i].token)

DoneCallback(s, i) ==
    LET s0 == [s EXCEPT !.invocations[i].doneCalls = @ + 1]
    IN  IF s.invocations[i].doneCalls > 0
        THEN s0     \* doneCalled: log.warn and return
        ELSE [resumeFrame(s0, s.invocations[i].token)
                 EXCEPT !.renderingRef = FALSE]

\* What the extension's render function does before it returns: "pending"
\* (keeps done for later), "done" (calls done), "throw" (throws),
\* "doneThrow" (calls done, then throws)
RenderOutcomes == {"pending", "done", "throw", "doneThrow"}

\* (an invocation whose catch block drops the error)
InvokeRenderSwallows(s, outcome) ==
    LET s1 == [s EXCEPT !.slowRender = FALSE]
        s2 == pauseFrame(s1, s1.panelId)
        s3 == [s2 EXCEPT !.renderingRef = TRUE, !.error = NoError]
        i  == Len(s3.invocations) + 1
        s4 == [s3 EXCEPT !.invocations = Append(@,
                   [fn |-> s3.renderFn, token |-> Len(s3.pauseTokens),
                    doneCalls |-> 0, threw |-> FALSE])]
        s5 == IF outcome \in {"done", "doneThrow"}
              THEN DoneCallback(s4, i) ELSE s4
    IN  IF outcome \in {"throw", "doneThrow"}
        THEN [s5 EXCEPT !.invocations[i].threw = TRUE]
        ELSE s5

\* (an invocation that takes a second pause token and keeps only that one)
InvokeRenderTwoTokens(s, outcome) ==
    LET s1 == [s EXCEPT !.slowRender = FALSE]
        s2 == pauseFrame(pauseFrame(s1, s1.panelId), s1.panelId)
        s3 == [s2 EXCEPT !.renderingRef = TRUE, !.error = NoError]
        i  == Len(s3.invocations) + 1
        s4 == [s3 EXCEPT !.invocations = Append(@,
                   [fn |-> s3.renderFn, token |-> Len(s3.pauseTokens),
                    doneCalls |-> 0, threw |-> FALSE])]
        s5 == IF outcome \in {"done", "doneThrow"}
              THEN DoneCallback(s4, i) ELSE s4
    IN  IF outcome \in {"throw", "doneThrow"}
        THEN [s5 EXCEPT !.error = "err", !.invocations[i].threw = TRUE]
        ELSE s5

\* The render effect from setSlowRender(false) on: take a pause token, lock,
\* call the render function, catch what it throws
InvokeRender(s, outcome) ==
    LET s1 == [s EXCEPT !.slowRender = FALSE]
        s2 == pauseFrame(s1, s1.panelId)
        s3 == [s2 EXCEPT !.renderingRef = TRUE, !.error = NoError]
        i  == Len(s3.invocations) + 1
        s4 == [s3 EXCEPT !.invocations = Append(@,
                   [fn |-> s3.renderFn, token |-> Len(s3.pauseTokens),
                    doneCalls |-> 0, threw |-> FALSE])]
        s5 == IF outcome \in {"done", "doneThrow"}
              THEN DoneCallback(s4, i) ELSE s4
    IN  IF outcome \in {"throw", "doneThrow"}
        THEN [s5 EXCEPT !.error = "err", !.invocations[i].threw = TRUE]
        ELSE s5

\* The render effect invokes the render function
Invokes(s, yields) ==
    /\ s.mounted
    /\ s.renderFn # NoFn
    /\ yields
    /\ ~s.renderingRef

\* (a render effect that does not look at renderingRef)
RenderEffectNoLock(s, yields, outcome) ==
    IF ~s.mounted \/ s.renderFn = NoFn THEN s
    ELSE IF ~yields THEN s
    ELSE InvokeRender(s, outcome)

\* (a render effect that drops a frame without raising the slow flag)
RenderEffectSilent(s, yields, outcome) ==
    IF ~s.mounted \/ s.renderFn = NoFn THEN s
    ELSE IF ~yields THEN s
    ELSE IF s.renderingRef THEN s
    ELSE InvokeRender(s, outcome)

\* (a render effect that tests renderingRef before the render state)
RenderEffectLockFirst(s, yields, outcome) ==
    IF ~s.mounted \/ s.renderFn = NoFn THEN s
    ELSE IF s.renderingRef THEN [s EXCEPT !.slowRender = TRUE]
    ELSE IF ~yields THEN s
    ELSE InvokeRender(s, outcome)

\* The render useLayoutEffect. yields: buildRenderState returned a render
\* state (it returns undefined when nothing the panel watches has changed)
RenderEffect(s, yields, outcome) ==
    IF ~s.mounted \/ s.renderFn = NoFn THEN s
    ELSE IF ~yields THEN s
    ELSE IF s.renderingRef THEN [s EXCEPT !.slowRender = TRUE]
    ELSE InvokeRender(s, outcome)

\* Room for one more invocation of a render function
RenderRoom(s, yields) ==
    Invokes(s, yields) => Len(s.invocations) < MaxRenders

----------------------------------------------------------------------------
\* The lifecycle useLayoutEffect

\* (a cleanup that leaves the publishers registered)
InitCleanupSubscriptionsOnly(s) ==
    LET id == s.contexts[Len(s.contexts)].panelId
    IN  setSubscriptions(s, id, <<>>)

\* its cleanup, which closes over the context's panel id
InitCleanup(s) ==
    LET id == s.contexts[Len(s.contexts)].panelId
    IN  setPublishers(setSubscriptions(s, id, <<>>), id, <<>>)

\* (a context whose callService is gated on the advertise capability)
partialExtensionContextOneGate(s) ==
    [panelId |-> s.panelId,
     initialState |-> s.initialState,
     advertise |-> "advertise" \in s.capabilities,
     unadvertise |-> "advertise" \in s.capabilities,
     publish |-> "advertise" \in s.capabilities,
     callService |-> "advertise" \in s.capabilities]

\* partialExtensionContext, as computed by useMemo in the current render;
\* an optional function of the context is TRUE when it is defined
partialExtensionContext(s) ==
    [panelId |-> s.panelId,
     initialState |-> s.initialState,
     advertise |-> "advertise" \in s.capabilities,
     unadvertise |-> "advertise" \in s.capabilities,
     publish |-> "advertise" \in s.capabilities,
     callService |-> "callServices" \in s.capabilities]

\* (a body that also resets the rendering lock)
InitEffectResetsLock(s) ==
    LET s1 == [s EXCEPT !.renderFn = NoFn, !.buildRenderState = @ + 1,
                        !.watchedSoFar = {}, !.renderingRef = FALSE]
    IN  [s1 EXCEPT !.contexts = Append(@, partialExtensionContext(s1))]

\* its body: reset local state and call initPanel (from which on
\* watchedSoFar collects the fields passed to watch)
InitEffect(s) ==
    LET s1 == [s EXCEPT !.renderFn = NoFn, !.buildRenderState = @ + 1,
                        !.watchedSoFar = {}]
    IN  [s1 EXCEPT !.contexts = Append(@, partialExtensionContext(s1))]

\* A commit in which the extension context has changed: the cleanup of the
\* lifecycle effect, the render effect (its dependencies changed too), the
\* lifecycle effect; the render effect of the re-render finds no renderFn.
ReInitCommit(s, yields, outcome) ==
    InitEffect(RenderEffect(InitCleanup(s), yields, outcome))

----------------------------------------------------------------------------
\* The app-settings useEffect

SettingKeys == {"k1", "k2"}

\* AppConfiguration.addChangeListener and removeChangeListener: the store
\* holds the listeners it was given, by key and function identity
addChangeListener(ls, key, handler) ==
    ls \cup {[key |-> key, handler |-> handler]}

removeChangeListener(ls, key, handler) ==
    ls \ {[key |-> key, handler |-> handler]}

\* a function object the store has not seen
NewHandler(ls) ==
    1 + (CHOOSE n \in 0..MaxHandlers + MaxSettings :
             /\ n \in {l.handler : l \in ls} \cup {0}
             /\ \A l \in ls : l.handler <= n)

\* handlers.set(key, handler)
HandlersSet(hs, key, handler) ==
    {e \in hs : e.key # key} \cup {[key |-> key, handler |-> handler]}

\* its cleanup: one removeChangeListener per entry of the handlers map
AppSettingsCleanup(s) ==
    [s EXCEPT !.listeners =
        {l \in @ : \A e \in s.handlers :
                      l \in removeChangeListener({l}, e.key, e.handler)}]

\* the loop over subscribedAppSettings that creates, stores and registers
\* one handler per element
RECURSIVE RegisterHandlers(_, _)
RegisterHandlers(s, keys) ==
    IF keys = <<>> THEN s
    ELSE LET handler == NewHandler(s.listeners)
         IN  RegisterHandlers(
                 [s EXCEPT !.handlers = HandlersSet(@, Head(keys), handler),
                           !.listeners =
                               addChangeListener(@, Head(keys), handler)],
                 Tail(keys))

\* its body, which ends with setAppSettings(newAppSettings)
AppSettingsBody(s) ==
    LET s1 == RegisterHandlers([s EXCEPT !.handlers = {}],
                               s.subscribedAppSettings)
    IN  [s1 EXCEPT !.appSettings = {s.subscribedAppSettings[n] :
                                       n \in 1..Len(s.subscribedAppSettings)}]

\* Unmounting the component
Unmounted(s) == [AppSettingsCleanup(InitCleanup(s)) EXCEPT !.mounted = FALSE]

----------------------------------------------------------------------------
Init ==
    /\ mounted = TRUE
    /\ hostError = NoError
    /\ config \in Configs
    /\ initialState = config
    /\ panelId = uuid(0)
    /\ error = NoError
    /\ watchedFields = {}
    /\ subscribedTopics = <<>>
    /\ renderFn = NoFn
    /\ slowRender = FALSE
    /\ advertisementsRef = <<>>
    /\ buildRenderState = 2
    /\ renderingRef = FALSE
    /\ hoverValue = NoHover
    /\ capabilities \in SUBSET AllCapabilities
    /\ startTime = NoTime
    /\ subscriptions = [id \in PanelIds |-> <<>>]
    /\ publishers = [id \in PanelIds |-> <<>>]
    /\ pauseTokens = <<>>
    /\ contexts = <<[panelId |-> panelId, initialState |-> config,
                     advertise |-> "advertise" \in capabilities,
                     unadvertise |-> "advertise" \in capabilities,
                     publish |-> "advertise" \in capabilities,
                     callService |-> "callServices" \in capabilities]>>
    /\ invocations = <<>>
    /\ subscribedAppSettings = <<>>
    /\ appSettings = {}
    /\ handlers = {}
    /\ listeners = {}
    /\ published = {}
    /\ serviceCalls = {}
    /\ siblingPanels = 0
    /\ watchedSoFar = {}
    /\ panelContext = NoPanelContext
    /\ anchorEl = NoElement
    /\ overSubMenu = FALSE
    /\ mosaicRoot = "root1"
    /\ windowPath = "first"
    /\ swapPanelCalls = <<>>
    /\ lastOp = [op |-> "mount", built |-> "notcalled"]

\* Every handler but the failing render pass runs with no pending error: the
\* re-render that setError schedules is flushed before any other event
Ready == ~(mounted /\ error # NoError)

\* What the render effect's call of buildRenderState came to
Built(s, yields) ==
    IF ~(s.mounted /\ s.renderFn # NoFn) THEN "notcalled"
    ELSE IF yields THEN "state" ELSE "nothing"

\* The inputs of a render cycle that make a difference in state s
Cycle(s, yields, outcome) ==
    /\ yields => (s.mounted /\ s.renderFn # NoFn)
    /\ outcome # "pending" => Invokes(s, yields)
    /\ RenderRoom(s, yields)

----------------------------------------------------------------------------
\* Pipeline and host events

StartTimes ==
    {NoTime} \cup [sec : 0..MaxStartSec, nsec : {0, HalfSecNsec}]

\* The pipeline emits a new player state (same capabilities)
PipelineSnapshot(st, yields, outcome) ==
    /\ mounted /\ Ready
    /\ Cycle(State, yields, outcome)
    /\ LET s1 == [State EXCEPT !.startTime = st]
       IN  Becomes(RenderEffect(s1, yields, outcome),
                   [op |-> "snapshot", built |-> Built(s1, yields)])

\* The player's capabilities change: useMemo recomputes the extension
\* context, so the lifecycle effect runs again under the same panel id
CapabilitiesChange(caps, yields, outcome) ==
    /\ mounted /\ Ready
    /\ caps # capabilities
    /\ Len(contexts) < MaxInits
    /\ Cycle(State, yields, outcome)
    /\ LET s1 == [State EXCEPT !.capabilities = caps]
       IN  Becomes(ReInitCommit(s1, yields, outcome),
                   [op |-> "capabilities", built |-> Built(s1, yields)])

\* props.config changes: useUpdateEffect stores it and, when it is empty,
\* draws a new panel id, which re-initializes the panel
ConfigChange(c, yields, outcome) ==
    /\ mounted /\ Ready
    /\ c # config
    /\ LET s1 == [State EXCEPT !.config = c, !.initialState = c]
       IN  IF isEqual(c)
           THEN /\ panelId < MaxPanelIds
                /\ Len(contexts) < MaxInits
                /\ Cycle(State, yields, outcome)
                /\ LET s2 == [s1 EXCEPT !.panelId = uuid(s1.panelId)]
                   IN  Becomes(ReInitCommit(s2, yields, outcome),
                               [op |-> "config", built |-> Built(s2, yields)])
           ELSE /\ ~yields /\ outcome = "pending"
                /\ Becomes(s1, [op |-> "config", built |-> "notcalled"])

\* One render pass receives both a new props.config and new capabilities:
\* useMemo builds the context from initialState.current before the
\* useUpdateEffect of this pass has stored the new configuration, and the
\* lifecycle effect calls initPanel with it; the useUpdateEffect then
\* stores the configuration and, when it is empty, draws a new panel id,
\* which re-initializes the panel once more
ConfigCapabilitiesChange(c, caps, yields, outcome) ==
    /\ mounted /\ Ready
    /\ c # config
    /\ caps # capabilities
    /\ Len(contexts) + (IF isEqual(c) THEN 2 ELSE 1) <= MaxInits
    /\ isEqual(c) => panelId < MaxPanelIds
    /\ Cycle(State, yields, outcome)
    /\ LET s1 == [State EXCEPT !.config = c, !.capabilities = caps]
           s2 == ReInitCommit(s1, yields, outcome)
           s3 == [s2 EXCEPT !.initialState = c]
           s4 == [s3 EXCEPT !.panelId = uuid(s3.panelId)]
       IN  Becomes(IF isEqual(c)
                   THEN ReInitCommit(s4, FALSE, "pending")
                   ELSE s3,
                   [op |-> "configCapabilities",
                    built |-> Built(s1, yields)])

\* Another component sets the hover value, a global variable or the colour
\* scheme: an input of the render effect changes
InputChange(hover, yields, outcome) ==
    /\ mounted /\ Ready
    /\ Cycle(State, yields, outcome)
    /\ LET s1 == IF hover
                 THEN setHoverValue(State, [type |-> "PLAYBACK_SECONDS",
                                            componentId |-> "other",
                                            value |-> 0])
                 ELSE State
       IN  Becomes(RenderEffect(s1, yields, outcome),
                   [op |-> "input", built |-> Built(s1, yields)])

\* The adapter's render pass with a stored error: it throws, and the host's
\* error boundary unmounts the component
Rethrow ==
    /\ mounted /\ error # NoError
    /\ Becomes([Unmounted(State) EXCEPT !.hostError = error],
               [op |-> "rethrow", built |-> "notcalled"])

\* The host unmounts the panel
Unmount ==
    /\ mounted /\ Ready
    /\ Becomes(Unmounted(State), [op |-> "unmount", built |-> "notcalled"])

----------------------------------------------------------------------------
\* Calls made by the extension

\* Calls of a done callback after its first, over all invocations
RECURSIVE DupDone(_)
DupDone(invs) ==
    IF invs = <<>> THEN 0
    ELSE (IF Head(invs).doneCalls > 1 THEN Head(invs).doneCalls - 1 ELSE 0)
         + DupDone(Tail(invs))

\* The extension calls the done callback of invocation i
Done(i) ==
    /\ Ready
    /\ i \in 1..Len(invocations)
    /\ invocations[i].doneCalls > 0 => DupDone(invocations) < MaxDupDone
    /\ Becomes(DoneCallback(State, i), [op |-> "done", built |-> "notcalled"])

\* context.onRender = fn, through the context of instance k
SetOnRender(k, fn, yields, outcome) ==
    /\ Ready
    /\ k \in 1..Len(contexts)
    /\ fn \in {NoFn, k}
    /\ LET s1 == SetState(State, "renderFn", fn)
       IN  /\ Cycle(s1, yields, outcome)
           /\ yields => fn # renderFn
           /\ Becomes(RenderEffect(s1, yields, outcome),
                      [op |-> "onRender", built |-> Built(s1, yields)])

\* context.watch(field)
Watch(k, field, yields, outcome) ==
    /\ Ready
    /\ k \in 1..Len(contexts)
    /\ LET s0 == SetState(State, "watchedFields",
                          watchedFields \cup {field})
           s1 == SetState(s0, "watchedSoFar", watchedSoFar \cup {field})
       IN  /\ Cycle(s1, yields, outcome)
           /\ Becomes(RenderEffect(s1, yields, outcome),
                      [op |-> "watch", built |-> Built(s1, yields)])

\* Arguments of subscribe: topic strings and Subscription objects
Items ==
    {[kind |-> "string", topic |-> "/a", preload |-> "undefined"],
     [kind |-> "sub", topic |-> "/b", preload |-> "true"],
     [kind |-> "sub", topic |-> "/b", preload |-> "false"],
     [kind |-> "sub", topic |-> "/a", preload |-> "undefined"]}

SubscribeArgs == UNION {[1..n -> Items] : n \in 0..MaxTopics}

\* (only the plain strings are pushed)
TopicNamesOfStrings(topics) ==
    LET IsString(item) == item.kind = "string"
        strings == SelectSeq(topics, IsString)
    IN  [n \in 1..Len(strings) |-> strings[n].topic]

\* the topic names pushed to newSubscribedTopics
TopicNames(topics) == [n \in 1..Len(topics) |-> topics[n].topic]

\* topics.map<SubscribePayload>(...)
SubscribePayloads(topics) ==
    [n \in 1..Len(topics) |->
        IF topics[n].kind = "string"
        THEN [topic |-> topics[n].topic, preloadType |-> "full"]
        ELSE [topic |-> topics[n].topic,
              preloadType |-> IF topics[n].preload = "true"
                              THEN "full" ELSE "partial"]]

\* context.subscribe(topics)
Subscribe(k, topics, yields, outcome) ==
    /\ Ready
    /\ k \in 1..Len(contexts)
    /\ LET s1 == SetState(State, "subscribedTopics", TopicNames(topics))
           s2 == setSubscriptions(s1, contexts[k].panelId,
                                  SubscribePayloads(topics))
       IN  /\ Cycle(s2, yields, outcome)
           /\ Becomes(RenderEffect(s2, yields, outcome),
                      [op |-> "subscribe", ctx |-> k, topics |-> topics,
                       built |-> Built(s2, yields)])

\* context.unsubscribeAll()
UnsubscribeAll(k, yields, outcome) ==
    /\ Ready
    /\ k \in 1..Len(contexts)
    /\ LET s1 == SetState(State, "subscribedTopics", <<>>)
           s2 == setSubscriptions(s1, contexts[k].panelId, <<>>)
       IN  /\ Cycle(s2, yields, outcome)
           /\ Becomes(RenderEffect(s2, yields, outcome),
                      [op |-> "unsubscribeAll", ctx |-> k,
                       built |-> Built(s2, yields)])

\* (a map that adds an entry for every set)
MapSetAppends(m, payload) == Append(m, payload)

\* Map.prototype.set on the insertion-ordered advertisement map
MapSet(m, payload) ==
    IF \E n \in 1..Len(m) : m[n].topic = payload.topic
    THEN [n \in 1..Len(m) |->
             IF m[n].topic = payload.topic THEN payload ELSE m[n]]
    ELSE Append(m, payload)

\* Map.prototype.delete
MapDelete(m, topic) ==
    LET Keep(e) == e.topic # topic IN SelectSeq(m, Keep)

\* context.advertise(topic, datatype, options), called through context k
advertise(s, k, topic, datatype) ==
    LET s1 == [s EXCEPT !.advertisementsRef =
                   MapSet(@, [topic |-> topic, datatype |-> datatype])]
    IN  setPublishers(s1, s.contexts[k].panelId, s1.advertisementsRef)

\* (an unadvertise that does not push the map to the pipeline)
unadvertiseKeepsPublishers(s, k, topic) ==
    [s EXCEPT !.advertisementsRef = MapDelete(@, topic)]

\* context.unadvertise(topic), called through context k
unadvertise(s, k, topic) ==
    LET s1 == [s EXCEPT !.advertisementsRef = MapDelete(@, topic)]
    IN  setPublishers(s1, s.contexts[k].panelId, s1.advertisementsRef)

\* The extension calls advertise; the context has it only when it was built
\* with the advertise capability
Advertise(k, topic, datatype) ==
    /\ Ready
    /\ k \in 1..Len(contexts)
    /\ contexts[k].advertise
    /\ Becomes(advertise(State, k, topic, datatype),
               [op |-> "advertise", ctx |-> k, topic |-> topic,
                datatype |-> datatype, built |-> "notcalled"])

\* The extension calls unadvertise
Unadvertise(k, topic) ==
    /\ Ready
    /\ k \in 1..Len(contexts)
    /\ contexts[k].unadvertise
    /\ Becomes(unadvertise(State, k, topic),
               [op |-> "unadvertise", ctx |-> k, topic |-> topic,
                built |-> "notcalled"])

\* The extension calls advertise and then unadvertise for the same topic,
\* one after the other in one turn of the event loop
AdvertiseUnadvertise(k, topic, datatype) ==
    /\ Ready
    /\ k \in 1..Len(contexts)
    /\ contexts[k].advertise /\ contexts[k].unadvertise
    /\ Becomes(unadvertise(advertise(State, k, topic, datatype), k, topic),
               [op |-> "advertiseUnadvertise", ctx |-> k, topic |-> topic,
                built |-> "notcalled"])

\* MessagePipelineContext.publish and callService: the pipeline takes the
\* message or the request
publish(s, topic) == [s EXCEPT !.published = @ \cup {topic}]

callService(s, service) == [s EXCEPT !.serviceCalls = @ \cup {service}]

Services == {"/srv"}

\* The extension calls publish; the context has it only when it was built
\* with the advertise capability
Publish(k, topic) ==
    /\ Ready
    /\ k \in 1..Len(contexts)
    /\ contexts[k].publish
    /\ Becomes(publish(State, topic),
               [op |-> "publish", ctx |-> k, topic |-> topic,
                built |-> "notcalled"])

\* The extension calls callService; the context has it only when it was
\* built with the callServices capability
CallService(k, service) ==
    /\ Ready
    /\ k \in 1..Len(contexts)
    /\ contexts[k].callService
    /\ Becomes(callService(State, service),
               [op |-> "callService", ctx |-> k, service |-> service,
                built |-> "notcalled"])

\* PanelContext.openSiblingPanel: the host takes the request
openSiblingPanel(s) == [s EXCEPT !.siblingPanels = @ + 1]

\* util/assertNever: throws an Error with the message
assertNever(position) == "throws"

\* position values an extension can pass to layout.addPanel
Positions == {"sibling", "top", "undefined"}

\* (an addPanel that forwards the request before it looks at the position)
addPanelForwardsFirst(s, position) ==
    IF position = "sibling"
    THEN [state |-> openSiblingPanel(s), result |-> "returns"]
    ELSE [state |-> openSiblingPanel(s), result |-> assertNever(position)]

\* context.layout.addPanel({position, ...}): the state it leaves and the
\* way it ends
addPanel(s, position) ==
    IF position = "sibling"
    THEN [state |-> openSiblingPanel(s), result |-> "returns"]
    ELSE [state |-> s, result |-> assertNever(position)]

\* The extension calls layout.addPanel through context k
AddPanel(k, position) ==
    /\ Ready
    /\ k \in 1..Len(contexts)
    /\ position = "sibling" => siblingPanels < MaxSiblings
    /\ Becomes(addPanel(State, position).state,
               [op |-> "addPanel", position |-> position,
                result |-> addPanel(State, position).result,
                built |-> "notcalled"])

\* Arguments of subscribeAppSettings
SettingLists == UNION {[1..n -> SettingKeys] : n \in 0..MaxSettings}

\* context.subscribeAppSettings(settings), with a new array: the effect's
\* cleanup and body run after the commit, and setAppSettings changes an
\* input of the render effect
SubscribeAppSettings(k, settings, yields, outcome) ==
    /\ Ready
    /\ k \in 1..Len(contexts)
    /\ NewHandler(listeners) + Len(settings) <= MaxHandlers + 1
    /\ Cycle(State, yields, outcome)
    /\ LET s1 == SetState(State, "subscribedAppSettings", settings)
           s2 == IF s1.mounted
                 THEN AppSettingsBody(AppSettingsCleanup(s1))
                 ELSE s1
       IN  Becomes(RenderEffect(s2, yields, outcome),
                   [op |-> "subscribeAppSettings", settings |-> settings,
                    built |-> Built(s2, yields)])

\* The configuration store calls a listener it holds: the handler adds its
\* key to a new appSettings map
AppSettingChanged(l, yields, outcome) ==
    /\ Ready
    /\ l \in listeners
    /\ Cycle(State, yields, outcome)
    /\ LET s1 == SetState(State, "appSettings", appSettings \cup {l.key})
       IN  Becomes(RenderEffect(s1, yields, outcome),
                   [op |-> "appSettingChanged", built |-> Built(s1, yields)])

\* context.setPreviewTime(stamp); Undefined stands for undefined
Undefined == -1

PreviewHover(s, stamp) ==
    IF stamp = Undefined
    THEN clearHoverValue(s, "PanelExtensionAdatper")
    ELSE IF s.startTime = NoTime
    THEN s
    ELSE setHoverValue(s, [type |-> "PLAYBACK_SECONDS",
                           componentId |-> "PanelExtensionAdatper",
                           value |-> stamp - toSec(s.startTime)])

\* the stamps an extension passes: multiples of half a second
Stamps == 0..MaxStamp

SetPreviewTime(k, stamp, yields, outcome) ==
    /\ Ready
    /\ k \in 1..Len(contexts)
    /\ LET s1 == PreviewHover(State, stamp)
       IN  /\ Cycle(s1, yields, outcome)
           /\ yields => (stamp = Undefined => s1 # State)
           /\ yields => (stamp # Undefined => startTime # NoTime)
           /\ Becomes(RenderEffect(s1, yields, outcome),
                      [op |-> "setPreviewTime", ctx |-> k, stamp |-> stamp,
                       built |-> Built(s1, yields)])

----------------------------------------------------------------------------
\* ChangePanelMenuItem

\* useCurrentLayoutActions().swapPanel: the layout takes the payload
swapPanel(s, payload) == [s EXCEPT !.swapPanelCalls = Append(@, payload)]

\* handleClose
handleClose(s) ==
    IF ~s.overSubMenu THEN [s EXCEPT !.anchorEl = NoElement] ELSE s

\* (a swap without the test for the current panel type)
swapUnconditional(s, type) ==
    swapPanel(s, [originalId |-> IF s.panelContext = NoPanelContext
                                 THEN "" ELSE s.panelContext.id,
                  type |-> type,
                  root |-> s.mosaicRoot,
                  path |-> s.windowPath])

\* swap(panelContext?.id)({type, ...}), the onPanelSelect of the list
swap(s, type) ==
    IF type = s.panelContext.type
    THEN handleClose(s)
    ELSE swapPanel(s, [originalId |-> IF s.panelContext = NoPanelContext
                                      THEN "" ELSE s.panelContext.id,
                       type |-> type,
                       root |-> s.mosaicRoot,
                       path |-> s.windowPath])

\* The user selects a panel type in the list of the open submenu
PanelSelect(type) ==
    /\ anchorEl # NoElement
    /\ type # panelContext.type => Len(swapPanelCalls) < MaxSwaps
    /\ Becomes(swap(State, type),
               [op |-> "panelSelect", type |-> type, built |-> "notcalled"])

\* handleClick: both setAnchorEl calls are batched and the last one wins
HandleClick ==
    Becomes([State EXCEPT !.anchorEl = NoElement],
            [op |-> "click", built |-> "notcalled"])

\* handleMouseEnter
HandleMouseEnter ==
    Becomes([State EXCEPT !.anchorEl = "change-panel-button"],
            [op |-> "mouseEnter", built |-> "notcalled"])

\* onMouseEnter and onMouseLeave of the submenu's Paper
PaperMouse(over) ==
    /\ anchorEl # NoElement
    /\ over # overSubMenu
    /\ Becomes([State EXCEPT !.overSubMenu = over],
               [op |-> "paperMouse", built |-> "notcalled"])

\* onClickAway of the ClickAwayListener
ClickAway ==
    /\ anchorEl # NoElement
    /\ Becomes(handleClose(State), [op |-> "clickAway", built |-> "notcalled"])

\* The panel context or the layout around the menu changes
MenuContextChange(pc, root, path) ==
    /\ <<pc, root, path>> # <<panelContext, mosaicRoot, windowPath>>
    /\ Becomes([State EXCEPT !.panelContext = pc, !.mosaicRoot = root,
                             !.windowPath = path],
               [op |-> "menuContext", built |-> "notcalled"])

\* The menu of a panel whose adapter is left alone
InitMenu ==
    /\ Init
    /\ config = "A"
    /\ capabilities = {}

NextChangePanel ==
    \/ \E type \in PanelTypes : PanelSelect(type)
    \/ HandleClick
    \/ HandleMouseEnter
    \/ \E over \in BOOLEAN : PaperMouse(over)
    \/ ClickAway
    \/ \E pc \in PanelContexts, root \in MosaicRoots, path \in WindowPaths :
           MenuContextChange(pc, root, path)

SpecChangePanel == InitMenu /\ [][NextChangePanel]_vars

----------------------------------------------------------------------------
\* The render cycle and the panel lifecycle

RenderConfigs == {"A", "E1"}
RenderCapabilities == {{}, {"advertise"}}

InitRender ==
    /\ Init
    /\ config = "A"
    /\ capabilities = {}

NextRender ==
    \/ \E y \in BOOLEAN, o \in RenderOutcomes :
           PipelineSnapshot(startTime, y, o)
    \/ \E c \in RenderConfigs, y \in BOOLEAN, o \in RenderOutcomes :
           ConfigChange(c, y, o)
    \/ \E y \in BOOLEAN, o \in RenderOutcomes : InputChange(FALSE, y, o)
    \/ Rethrow
    \/ \E i \in 1..MaxRenders : Done(i)
    \/ \E k \in 1..MaxInits, fn \in 0..MaxInits, y \in BOOLEAN,
          o \in RenderOutcomes : SetOnRender(k, fn, y, o)

Spec == InitRender /\ [][NextRender]_vars

----------------------------------------------------------------------------
\* The render cycle of a panel whose instances set onRender only while they
\* live, through the context of the current panel instance

NextReinit ==
    \/ \E y \in BOOLEAN, o \in RenderOutcomes :
           PipelineSnapshot(startTime, y, o)
    \/ \E c \in RenderConfigs, y \in BOOLEAN, o \in RenderOutcomes :
           ConfigChange(c, y, o)
    \/ Rethrow
    \/ \E i \in 1..MaxRenders : Done(i)
    \/ \E fn \in 0..MaxInits, y \in BOOLEAN, o \in RenderOutcomes :
           SetOnRender(Len(contexts), fn, y, o)

SpecReinit == InitRender /\ [][NextReinit]_vars

----------------------------------------------------------------------------
\* The panel lifecycle with a render-state builder that yields nothing

LifecycleTopics ==
    {<<[kind |-> "string", topic |-> "/a", preload |-> "undefined"]>>}

NextLifecycle ==
    \/ \E c \in Configs : ConfigChange(c, FALSE, "pending")
    \/ \E caps \in RenderCapabilities :
           CapabilitiesChange(caps, FALSE, "pending")
    \/ \E k \in 1..MaxInits, fn \in 0..MaxInits :
           SetOnRender(k, fn, FALSE, "pending")
    \/ \E k \in 1..MaxInits, f \in Fields : Watch(k, f, FALSE, "pending")
    \/ \E k \in 1..MaxInits, topics \in LifecycleTopics :
           Subscribe(k, topics, FALSE, "pending")
    \/ Unmount

SpecLifecycle == InitRender /\ [][NextLifecycle]_vars

----------------------------------------------------------------------------
\* Topic subscriptions of a panel that sets no render function, made through
\* the context of the current panel instance

NextSubscribe ==
    \/ \E topics \in SubscribeArgs :
           Subscribe(Len(contexts), topics, FALSE, "pending")
    \/ UnsubscribeAll(Len(contexts), FALSE, "pending")
    \/ \E c \in RenderConfigs : ConfigChange(c, FALSE, "pending")
    \/ \E caps \in RenderCapabilities :
           CapabilitiesChange(caps, FALSE, "pending")
    \/ Unmount

SpecSubscribe == InitRender /\ [][NextSubscribe]_vars

----------------------------------------------------------------------------
\* Advertisements of a panel that sets no render function, made through the
\* context of the current panel instance

InitAdvertise ==
    /\ Init
    /\ config = "A"
    /\ capabilities = {"advertise"}

NextAdvertise ==
    \/ \E t \in Topics, d \in Datatypes : Advertise(Len(contexts), t, d)
    \/ \E t \in Topics : Unadvertise(Len(contexts), t)
    \/ \E t \in Topics, d \in Datatypes :
           AdvertiseUnadvertise(Len(contexts), t, d)
    \/ \E c \in RenderConfigs : ConfigChange(c, FALSE, "pending")
    \/ \E caps \in RenderCapabilities :
           CapabilitiesChange(caps, FALSE, "pending")
    \/ Unmount

SpecAdvertise == InitAdvertise /\ [][NextAdvertise]_vars

----------------------------------------------------------------------------
\* Teardown of a panel that subscribes and advertises through the context
\* of the current panel instance

NextTeardown ==
    \/ \E topics \in LifecycleTopics :
           Subscribe(Len(contexts), topics, FALSE, "pending")
    \/ UnsubscribeAll(Len(contexts), FALSE, "pending")
    \/ \E t \in Topics, d \in Datatypes : Advertise(Len(contexts), t, d)
    \/ \E t \in Topics : Unadvertise(Len(contexts), t)
    \/ \E c \in RenderConfigs : ConfigChange(c, FALSE, "pending")
    \/ Unmount

SpecTeardown == InitAdvertise /\ [][NextTeardown]_vars

----------------------------------------------------------------------------
\* Subscriptions and advertisements made through the context of any panel
\* instance, the living one or one that was torn down before

NextStaleContext ==
    \/ \E k \in 1..MaxInits, topics \in LifecycleTopics :
           Subscribe(k, topics, FALSE, "pending")
    \/ \E k \in 1..MaxInits : UnsubscribeAll(k, FALSE, "pending")
    \/ \E k \in 1..MaxInits, t \in Topics, d \in {"d1"} : Advertise(k, t, d)
    \/ \E k \in 1..MaxInits, t \in Topics : Unadvertise(k, t)
    \/ \E c \in RenderConfigs : ConfigChange(c, FALSE, "pending")
    \/ Unmount

SpecStaleContext == InitAdvertise /\ [][NextStaleContext]_vars

----------------------------------------------------------------------------
\* The capability-gated functions of the contexts of a panel that sets no
\* render function, under every capability snapshot

InitCapability ==
    /\ Init
    /\ config = "A"

NextCapability ==
    \/ \E caps \in SUBSET AllCapabilities :
           CapabilitiesChange(caps, FALSE, "pending")
    \/ \E c \in RenderConfigs : ConfigChange(c, FALSE, "pending")
    \/ \E k \in 1..MaxInits, t \in {"/a"}, d \in {"d1"} : Advertise(k, t, d)
    \/ \E k \in 1..MaxInits, t \in {"/a"} : Unadvertise(k, t)
    \/ \E k \in 1..MaxInits, t \in {"/a"} : Publish(k, t)
    \/ \E k \in 1..MaxInits, srv \in Services : CallService(k, srv)
    \/ Unmount

SpecCapability == InitCapability /\ [][NextCapability]_vars

----------------------------------------------------------------------------
\* Layout requests of a panel that sets no render function

NextLayout ==
    \/ \E k \in 1..MaxInits, position \in Positions : AddPanel(k, position)
    \/ \E c \in Configs : ConfigChange(c, FALSE, "pending")
    \/ \E caps \in RenderCapabilities :
           CapabilitiesChange(caps, FALSE, "pending")
    \/ Unmount

SpecLayout == InitRender /\ [][NextLayout]_vars

----------------------------------------------------------------------------
\* App-setting subscriptions of a panel that sets no render function

NextAppSettings ==
    \/ \E k \in 1..MaxInits, settings \in SettingLists :
           SubscribeAppSettings(k, settings, FALSE, "pending")
    \/ \E key \in SettingKeys, handler \in 1..MaxHandlers :
           AppSettingChanged([key |-> key, handler |-> handler],
                             FALSE, "pending")
    \/ \E c \in RenderConfigs : ConfigChange(c, FALSE, "pending")
    \/ Unmount

SpecAppSettings == InitRender /\ [][NextAppSettings]_vars

----------------------------------------------------------------------------
\* Configuration changes of a panel mounted with any configuration, empty
\* or not

InitConfig ==
    /\ Init
    /\ capabilities = {}

NextConfig ==
    \/ \E c \in Configs : ConfigChange(c, FALSE, "pending")
    \/ \E c \in Configs, caps \in RenderCapabilities :
           ConfigCapabilitiesChange(c, caps, FALSE, "pending")
    \/ \E caps \in RenderCapabilities :
           CapabilitiesChange(caps, FALSE, "pending")
    \/ \E k \in 1..MaxInits, fn \in 0..MaxInits :
           SetOnRender(k, fn, FALSE, "pending")
    \/ Unmount

SpecConfig == InitConfig /\ [][NextConfig]_vars

----------------------------------------------------------------------------
\* The preview time of a panel that sets no render function

NextPreview ==
    \/ \E k \in 1..MaxInits, stamp \in {Undefined} \cup Stamps :
           SetPreviewTime(k, stamp, FALSE, "pending")
    \/ \E st \in StartTimes : PipelineSnapshot(st, FALSE, "pending")
    \/ InputChange(TRUE, FALSE, "pending")
    \/ \E c \in RenderConfigs : ConfigChange(c, FALSE, "pending")

SpecPreview == InitRender /\ [][NextPreview]_vars

----------------------------------------------------------------------------
\* Properties of the render cycle

\* invocations whose done callback has not been called
Outstanding(invs) == {i \in 1..Len(invs) : invs[i].doneCalls = 0}

\* C1: in every reachable state at most one invocation of the extension's
\* render function is outstanding (invoked, done callback not yet called)
C1_SingleFlight == Cardinality(Outstanding(invocations)) <= 1

\* a second render is outstanding after a re-initialization, the first one
\* completed, and a frame has been coalesced into the slow flag
C1_Witness ==
    /\ Len(invocations) = 2
    /\ Outstanding(invocations) = {2}
    /\ Len(contexts) = 2
    /\ slowRender

\* C2 as stated: a pipeline snapshot that arrives while a render is
\* outstanding raises the slow-render flag, invokes no render function and
\* acquires no pause token
C2_Original ==
    [][(lastOp'.op = "snapshot" /\ Outstanding(invocations) # {})
        => /\ slowRender'
           /\ Len(invocations') = Len(invocations)
           /\ pauseTokens' = pauseTokens]_vars

\* C2 amended: a pipeline snapshot that arrives while a render is
\* outstanding invokes no render function and acquires no pause token; it
\* raises the slow-render flag when a render function is set and the
\* builder yields a render state for it, and leaves the flag as it was
\* otherwise
C2_SlowRender ==
    [][(lastOp'.op = "snapshot" /\ Outstanding(invocations) # {})
        => /\ Len(invocations') = Len(invocations)
           /\ pauseTokens' = pauseTokens
           /\ slowRender' = IF lastOp'.built = "state"
                            THEN TRUE ELSE slowRender]_vars

\* a snapshot has just been coalesced while a render is outstanding
C2_Witness ==
    /\ lastOp.op = "snapshot"
    /\ lastOp.built = "state"
    /\ Outstanding(invocations) # {}
    /\ slowRender

\* C3 as stated: after the done callback of the outstanding render has been
\* called, the next pipeline snapshot invokes the render function with a
\* newly acquired pause token and clears the slow-render flag
C3_Original ==
    [][(lastOp.op = "done" /\ Outstanding(invocations) = {}
        /\ lastOp'.op = "snapshot")
        => /\ Len(invocations') = Len(invocations) + 1
           /\ Len(pauseTokens') = Len(pauseTokens) + 1
           /\ ~slowRender']_vars

\* C3 amended: once the done callback of every invoked render has been
\* called, a pipeline snapshot for which a render function is set and the
\* builder yields a render state invokes that render function once, with a
\* pause token newly acquired for the current panel id, and clears the
\* slow-render flag
C3_NextRender ==
    [][(Len(invocations) > 0 /\ Outstanding(invocations) = {}
        /\ lastOp'.op = "snapshot" /\ lastOp'.built = "state")
        => /\ Len(invocations') = Len(invocations) + 1
           /\ Len(pauseTokens') = Len(pauseTokens) + 1
           /\ invocations'[Len(invocations')].fn = renderFn
           /\ invocations'[Len(invocations')].token = Len(pauseTokens')
           /\ pauseTokens'[Len(pauseTokens')].id = panelId
           /\ ~slowRender']_vars

\* the first render completed, and a snapshot has started the second one
C3_Witness ==
    /\ lastOp.op = "snapshot"
    /\ Len(invocations) = 2
    /\ invocations[1].doneCalls > 0
    /\ invocations[2].doneCalls = 0
    /\ renderingRef
    /\ ~slowRender

\* the state of the adapter and of the pipeline
Observable ==
    <<mounted, hostError, config, initialState, panelId, error,
      watchedFields, subscribedTopics, renderFn, slowRender,
      advertisementsRef, buildRenderState, renderingRef, hoverValue,
      capabilities, startTime, subscriptions, publishers, pauseTokens,
      contexts, subscribedAppSettings, appSettings, handlers, listeners,
      published, serviceCalls, siblingPanels>>

\* C4: a second or later call of an invocation's done callback changes no
\* adapter or pipeline state; a pause token is resumed once, by the first
\* call of its invocation's done callback; a render that is outstanding at
\* a repeated call stays outstanding
C4_DoneIdempotent ==
    /\ [](\A i \in 1..Len(invocations) :
            pauseTokens[invocations[i].token].resumed
                = IF invocations[i].doneCalls > 0 THEN 1 ELSE 0)
    /\ [][\A i \in 1..Len(invocations) :
            (invocations[i].doneCalls > 0
             /\ invocations'[i].doneCalls > invocations[i].doneCalls)
            => /\ Observable' = Observable
               /\ Outstanding(invocations') = Outstanding(invocations)]_vars

\* the done callback of the first render was called twice while the second
\* render is outstanding
C4_Witness ==
    /\ Len(invocations) = 2
    /\ invocations[1].doneCalls = 2
    /\ invocations[2].doneCalls = 0
    /\ renderingRef
    /\ pauseTokens[invocations[1].token].resumed = 1

\* C9: when the render function throws, the adapter stores the error; its
\* next render pass throws it to the host and unmounts the panel, and no
\* render function is invoked from then on
C9_RenderThrows ==
    [][/\ (Len(invocations') > Len(invocations)
           /\ invocations'[Len(invocations')].threw) => error' # NoError
       /\ (mounted /\ error # NoError)
            => (hostError' = error /\ ~mounted' /\ invocations' = invocations)
       /\ hostError # NoError => Len(invocations') = Len(invocations)]_vars

\* a render function threw and the host has received the error
C9_Witness ==
    /\ hostError # NoError
    /\ ~mounted
    /\ invocations[Len(invocations)].threw

\* C10: a render cycle whose builder yields nothing invokes no render
\* function, acquires no pause token and leaves the slow-render flag, the
\* rendering lock and the stored error as they were
C10_FrameSkipped ==
    [][lastOp'.built = "nothing"
        => /\ invocations' = invocations
           /\ pauseTokens' = pauseTokens
           /\ slowRender' = slowRender
           /\ renderingRef' = renderingRef
           /\ error' = error]_vars

\* the builder yielded nothing while a render was outstanding
C10_Witness ==
    /\ lastOp.built = "nothing"
    /\ Outstanding(invocations) # {}
    /\ renderingRef
    /\ ~slowRender

----------------------------------------------------------------------------
\* Properties of the extension context

\* C5: after a subscribe call the subscribed-topic list is the topics of its
\* argument, in order (strings and Subscription objects alike); after
\* unsubscribeAll it is empty; nothing else changes the list
C5_LastWriteWins ==
    /\ [](mounted =>
            /\ lastOp.op = "subscribe" =>
                 subscribedTopics =
                     [n \in 1..Len(lastOp.topics) |-> lastOp.topics[n].topic]
            /\ lastOp.op = "unsubscribeAll" => subscribedTopics = <<>>)
    /\ [][lastOp'.op \notin {"subscribe", "unsubscribeAll"}
            => subscribedTopics' = subscribedTopics]_vars

\* the second panel instance subscribed with a Subscription object and a
\* string
C5_Witness ==
    /\ lastOp.op = "subscribe"
    /\ Len(contexts) = 2
    /\ Len(lastOp.topics) = 2
    /\ lastOp.topics[1].kind = "sub"
    /\ lastOp.topics[2].kind = "string"
    /\ subscribedTopics = <<"/b", "/a">>

\* C6: when the configuration becomes empty after having been non-empty,
\* the adapter draws a new panel id, tears the old instance down, calls
\* initPanel again, unsets the render function, takes a fresh render-state
\* builder and empties the watched-field set
C6_ConfigReset ==
    [][(lastOp'.op = "config" /\ ~isEqual(config) /\ isEqual(config'))
        => /\ panelId' # panelId
           /\ subscriptions'[panelId] = <<>>
           /\ publishers'[panelId] = <<>>
           /\ Len(contexts') = Len(contexts) + 1
           /\ contexts'[Len(contexts')].panelId = panelId'
           /\ renderFn' = NoFn
           /\ buildRenderState' # buildRenderState
           /\ watchedFields' = {}]_vars

\* C7 as stated: advertise followed by unadvertise for the same topic leaves
\* the publisher registration for the panel id as it was before the calls
C7_Original ==
    [][lastOp'.op = "advertiseUnadvertise"
        => publishers'[contexts[lastOp'.ctx].panelId]
               = publishers[contexts[lastOp'.ctx].panelId]]_vars

\* C7 amended: advertise followed by unadvertise for the same topic leaves
\* the publisher registration for the panel id equal to the entries the
\* advertisement map had before the calls, without the entry of that topic;
\* that is the registration from before the calls when the topic was not
\* advertised and the registration held the entries of the map
C7_AdvertiseUnadvertise ==
    [][lastOp'.op = "advertiseUnadvertise"
        => LET id == contexts[lastOp'.ctx].panelId
               Other(e) == e.topic # lastOp'.topic
               advertised == \E n \in 1..Len(advertisementsRef) :
                                 advertisementsRef[n].topic = lastOp'.topic
           IN  /\ publishers'[id] = SelectSeq(advertisementsRef, Other)
               /\ (~advertised /\ publishers[id] = advertisementsRef)
                    => publishers'[id] = publishers[id]]_vars

\* advertise and unadvertise were called for one topic while the other
\* topic stays advertised
C7_Witness ==
    /\ lastOp.op = "advertiseUnadvertise"
    /\ Len(publishers[contexts[lastOp.ctx].panelId]) = 1
    /\ publishers[contexts[lastOp.ctx].panelId][1].topic # lastOp.topic

\* C8: setPreviewTime(undefined) clears the hover value that setPreviewTime
\* set; setPreviewTime(t) leaves the hover value as it is while the start
\* time is unknown, and sets it to t minus the start time, in seconds, once
\* the start time is known
C8_PreviewTime ==
    [][lastOp'.op = "setPreviewTime"
        => IF lastOp'.stamp = Undefined
           THEN hoverValue' =
                    IF hoverValue.componentId = "PanelExtensionAdatper"
                    THEN NoHover ELSE hoverValue
           ELSE IF startTime = NoTime
           THEN hoverValue' = hoverValue
           ELSE /\ hoverValue'.type = "PLAYBACK_SECONDS"
                /\ hoverValue'.componentId = "PanelExtensionAdatper"
                /\ hoverValue'.value =
                       lastOp'.stamp - 2 * startTime.sec
                         - (IF startTime.nsec = 0 THEN 0 ELSE 1)]_vars

\* a preview time of 1.5 s was set with a start time of 1.5 s
C8_Witness ==
    /\ lastOp.op = "setPreviewTime"
    /\ lastOp.stamp = 3
    /\ startTime = [sec |-> 1, nsec |-> HalfSecNsec]
    /\ hoverValue.componentId = "PanelExtensionAdatper"
    /\ hoverValue.value = 0

----------------------------------------------------------------------------
\* Properties of teardown

\* C11: a step that tears a panel instance down, by unmounting the adapter
\* or by re-initializing it under a new panel id, leaves the subscription
\* registry and the publisher registry of that instance's panel id empty
C11_Teardown ==
    [][((mounted /\ ~mounted') \/ panelId' # panelId)
        => /\ subscriptions'[panelId] = <<>>
           /\ publishers'[panelId] = <<>>]_vars

\* the first instance subscribed and advertised, and the adapter has just
\* re-initialized under a second panel id
C11_Witness ==
    /\ lastOp.op = "config"
    /\ panelId = 2
    /\ Len(contexts) = 2
    /\ subscribedTopics # <<>>
    /\ advertisementsRef # <<>>
    /\ subscriptions[1] = <<>>
    /\ publishers[1] = <<>>

----------------------------------------------------------------------------
\* Properties of the capability gates

\* the context built from the capability snapshot caps has advertise,
\* unadvertise and publish exactly when caps includes advertise, and
\* callService exactly when caps includes callServices
Offers(ctx, caps) ==
    /\ ctx.advertise = ("advertise" \in caps)
    /\ ctx.unadvertise = ("advertise" \in caps)
    /\ ctx.publish = ("advertise" \in caps)
    /\ ctx.callService = ("callServices" \in caps)

\* C12: the context of the mounted panel instance, and every context when
\* it is built, defines advertise, unadvertise and publish exactly when the
\* capability snapshot includes advertise and callService exactly when it
\* includes callServices; a publisher registration or a publish reaches the
\* pipeline only through a context that defines the function called, and so
\* does a service call, so none does through a context built without the
\* capability
C12_CapabilityGate ==
    /\ [](mounted => Offers(contexts[Len(contexts)], capabilities))
    /\ [][/\ (Len(contexts') > Len(contexts))
              => Offers(contexts'[Len(contexts')], capabilities')
          /\ (\E id \in PanelIds : /\ publishers'[id] # publishers[id]
                                    /\ publishers'[id] # <<>>)
              => /\ lastOp'.op \in {"advertise", "unadvertise"}
                 /\ contexts[lastOp'.ctx][lastOp'.op]
          /\ (published' # published)
              => (lastOp'.op = "publish" /\ contexts[lastOp'.ctx].publish)
          /\ (serviceCalls' # serviceCalls)
              => /\ lastOp'.op = "callService"
                 /\ contexts[lastOp'.ctx].callService]_vars

\* the capabilities went from advertise to callServices: the second context
\* has callService and lacks publish, a message was published through the
\* first context and a service was called through the second
C12_Witness ==
    /\ Len(contexts) = 2
    /\ capabilities = {"callServices"}
    /\ contexts[1].publish /\ ~contexts[1].callService
    /\ ~contexts[2].publish /\ contexts[2].callService
    /\ published # {}
    /\ serviceCalls # {}

----------------------------------------------------------------------------
\* Properties of layout requests

\* C13: layout.addPanel with position "sibling" passes exactly one request
\* to openSiblingPanel and returns; with any other position it throws and
\* passes no request to openSiblingPanel
C13_AddPanel ==
    [][lastOp'.op = "addPanel"
        => IF lastOp'.position = "sibling"
           THEN /\ siblingPanels' = siblingPanels + 1
                /\ lastOp'.result = "returns"
           ELSE /\ siblingPanels' = siblingPanels
                /\ lastOp'.result = "throws"]_vars

\* after one sibling request, addPanel was called with another position
C13_Witness ==
    /\ lastOp.op = "addPanel"
    /\ lastOp.position = "top"
    /\ lastOp.result = "throws"
    /\ siblingPanels = 1

----------------------------------------------------------------------------
\* Properties of the app-setting listeners

\* C14: while the adapter is mounted, the listeners the configuration store
\* holds are those of the effect that ran last, exactly one for each key of
\* the current subscription list and none for any other key; once the
\* adapter is unmounted the store holds none
C14_Listeners ==
    IF mounted
    THEN /\ listeners = handlers
         /\ \A key \in SettingKeys :
                Cardinality({l \in listeners : l.key = key})
                  = IF \E n \in 1..Len(subscribedAppSettings) :
                           subscribedAppSettings[n] = key
                    THEN 1 ELSE 0
    ELSE listeners = {}

----------------------------------------------------------------------------
\* Properties of the panel lifecycle

\* C15: after the call at mount, initPanel is called again only in a step
\* that changes the panel id; a change of the pipeline (its capabilities
\* among them) builds no new extension context and calls initPanel for none
C15_InitOnce ==
    [][Len(contexts') > Len(contexts)
        => (panelId' # panelId /\ lastOp'.op # "capabilities")]_vars

\* C16 as stated: the panel id changes only in a step in which the
\* configuration goes from a non-empty value to an empty one
C16_Original ==
    [][panelId' # panelId
        => (config \notin {"E1", "E2"} /\ config' \in {"E1", "E2"})]_vars

\* C16 amended: the panel id changes exactly in the steps in which the
\* configuration changes to an empty value, whether the value before was
\* non-empty or another empty value; the initial configuration, empty or
\* not, and a change to a non-empty configuration leave the first panel id
\* in place
C16_PanelId ==
    /\ [](lastOp.op = "mount" => panelId = uuid(0))
    /\ [][panelId' # panelId
            <=> (config' # config /\ config' \in {"E1", "E2"})]_vars

\* the panel was mounted with an empty configuration and has a second panel
\* id now that the configuration is another empty value
C16_Witness ==
    /\ lastOp.op = "config"
    /\ contexts[1].initialState = "E1"
    /\ config = "E2"
    /\ panelId = 2

\* C17: a step that changes the configuration to a non-empty value and
\* nothing else calls initPanel for no new context, and every context that
\* initPanel is called with, at mount and in any later step, carries as
\* initialState the latest configuration value the adapter was given
C17_InitialState ==
    /\ [](lastOp.op = "mount" => contexts[1].initialState = config)
    /\ [][/\ lastOp'.op = "config" /\ config' \notin {"E1", "E2"}
              => Len(contexts') = Len(contexts)
          /\ \A k \in (Len(contexts) + 1)..Len(contexts') :
                 contexts'[k].initialState = config']_vars

\* C18: while a panel instance lives, the watched-field set is the set of
\* the fields passed to watch since that instance's initPanel; a watch call
\* removes no field from it and, when a render function is set, runs a
\* render cycle that builds the render state with the enlarged set
C18_WatchedFields ==
    /\ [](mounted => watchedFields = watchedSoFar)
    /\ [][(lastOp'.op = "watch" /\ mounted)
            => /\ watchedFields \subseteq watchedFields'
               /\ renderFn # NoFn => lastOp'.built # "notcalled"]_vars

----------------------------------------------------------------------------
\* Properties of the pause tokens

\* C19: the pause tokens and the invocations of a render function match one
\* to one, in order; the token of an invocation is acquired in the step
\* that invokes the function, for the panel id current in that step; it is
\* resumed once, in the step of the first call of the invocation's done
\* callback, and is not resumed while done has not been called
C19_PauseToken ==
    /\ [](/\ Len(pauseTokens) = Len(invocations)
          /\ \A i \in 1..Len(invocations) :
                /\ invocations[i].token = i
                /\ pauseTokens[i].resumed
                     = IF invocations[i].doneCalls = 0 THEN 0 ELSE 1)
    /\ [][/\ \A i \in (Len(pauseTokens) + 1)..Len(pauseTokens') :
                /\ i = Len(pauseTokens) + 1
                /\ Len(invocations') = Len(invocations) + 1
                /\ pauseTokens'[i].id = panelId'
          /\ \A i \in 1..Len(pauseTokens) :
                pauseTokens'[i].resumed # pauseTokens[i].resumed
                => /\ lastOp'.op = "done"
                   /\ invocations[i].doneCalls = 0
                   /\ invocations'[i].doneCalls = 1]_vars

\* the first render took a token for the first panel id and its done
\* callback was called; the second render, after a re-initialization, holds
\* a token for the second panel id that is not resumed
C19_Witness ==
    /\ Len(invocations) = 2
    /\ pauseTokens[1] = [id |-> 1, resumed |-> 1]
    /\ pauseTokens[2] = [id |-> 2, resumed |-> 0]
    /\ invocations[2].doneCalls = 0
    /\ lastOp.op # "done"

----------------------------------------------------------------------------
\* Properties of the advertisement map

\* C20: after an advertise or unadvertise call the publisher registration
\* of the context's panel id is the advertisement map, which never has two
\* entries for one topic; advertise(topic, datatype) leaves exactly one
\* entry for the topic, with that datatype, and unadvertise(topic) none;
\* both leave the entries of the other topics as they were
C20_Publishers ==
    [][lastOp'.op \in {"advertise", "unadvertise"}
        => LET id == contexts[lastOp'.ctx].panelId
               Same(e) == e.topic = lastOp'.topic
               Other(e) == e.topic # lastOp'.topic
               registered == publishers'[id]
           IN  /\ registered = advertisementsRef'
               /\ \A m, n \in 1..Len(registered) :
                      registered[m].topic = registered[n].topic => m = n
               /\ SelectSeq(registered, Other)
                      = SelectSeq(advertisementsRef, Other)
               /\ SelectSeq(registered, Same)
                      = IF lastOp'.op = "advertise"
                        THEN <<[topic |-> lastOp'.topic,
                                datatype |-> lastOp'.datatype]>>
                        ELSE <<>>]_vars

\* a topic advertised with one datatype was advertised again with the
\* other, while the other topic stays advertised
C20_Witness ==
    /\ lastOp.op = "advertise"
    /\ lastOp.topic = "/a"
    /\ lastOp.datatype = "d2"
    /\ publishers[contexts[lastOp.ctx].panelId]
           = <<[topic |-> "/a", datatype |-> "d2"],
               [topic |-> "/b", datatype |-> "d1"]>>

----------------------------------------------------------------------------
\* Properties of the Change Panel submenu

\* C21: selecting the type the panel already has passes nothing to
\* swapPanel, closes the submenu when the pointer is not over it and leaves
\* it open when the pointer is over it; selecting another type passes
\* exactly one payload to swapPanel, with the panel's id, the selected type,
\* the mosaic root and the window path of that moment
C21_Swap ==
    [][lastOp'.op = "panelSelect"
        => IF lastOp'.type = panelContext.type
           THEN /\ swapPanelCalls' = swapPanelCalls
                /\ anchorEl' = IF overSubMenu THEN anchorEl ELSE NoElement
           ELSE /\ Len(swapPanelCalls') = Len(swapPanelCalls) + 1
                /\ SubSeq(swapPanelCalls', 1, Len(swapPanelCalls))
                       = swapPanelCalls
                /\ LET payload == swapPanelCalls'[Len(swapPanelCalls')]
                   IN  /\ panelContext # NoPanelContext
                           => payload.originalId = panelContext.id
                       /\ payload.type = lastOp'.type
                       /\ payload.root = mosaicRoot
                       /\ payload.path = windowPath]_vars

\* after a swap to another type under the first layout, the type of the
\* panel was selected with the pointer away from the submenu, which closed
C21_Witness ==
    /\ lastOp.op = "panelSelect"
    /\ lastOp.type = panelContext.type
    /\ anchorEl = NoElement
    /\ Len(swapPanelCalls) = 1
    /\ swapPanelCalls[1].root # mosaicRoot

----------------------------------------------------------------------------
\* Properties of the rendering lock

\* C22: the rendering lock is held while the done callback of the latest
\* invocation has not been called, whether or not the render function threw;
\* it is released only by the step that calls that done callback for the
\* first time; every other step taken while it is held, a re-initialization
\* under a new panel id and a change of the render function among them,
\* leaves it held, invokes no render function, acquires no pause token and
\* changes the slow-render flag only by raising it
C22_Lock ==
    /\ [](Outstanding(invocations) # {} => renderingRef)
    /\ [][renderingRef
            => /\ ~renderingRef'
                  => /\ lastOp'.op = "done"
                     /\ invocations[Len(invocations)].doneCalls = 0
                     /\ invocations'[Len(invocations)].doneCalls = 1
               /\ lastOp'.op # "done"
                  => /\ renderingRef'
                     /\ invocations' = invocations
                     /\ pauseTokens' = pauseTokens
                     /\ slowRender' # slowRender => slowRender']_vars

\* the first render is outstanding, the panel was re-initialized under a
\* second panel id, the new instance has set its render function, and a
\* snapshot with a render state has only raised the slow-render flag
C22_Witness ==
    /\ lastOp.op = "snapshot"
    /\ lastOp.built = "state"
    /\ panelId = 2
    /\ renderFn = 2
    /\ Len(invocations) = 1
    /\ invocations[1].fn = 1
    /\ invocations[1].doneCalls = 0
    /\ renderingRef
    /\ slowRender

----------------------------------------------------------------------------
\* Properties of the registries across teardown

\* the topics of a list of payloads
TopicsOf(payloads) == {payloads[n].topic : n \in 1..Len(payloads)}

\* C23: the publisher registration of a panel id holds only topics that
\* were advertised under that panel id: an advertise call adds at most its
\* own topic to the topics registered for the context's panel id and an
\* unadvertise call adds none, so the first push of a re-initialized
\* instance carries no topic advertised under the previous panel id
C23_Advertisements ==
    [][lastOp'.op \in {"advertise", "unadvertise"}
        => LET id == contexts[lastOp'.ctx].panelId
           IN  TopicsOf(publishers'[id])
                   \subseteq (TopicsOf(publishers[id]) \cup
                                 (IF lastOp'.op = "advertise"
                                  THEN {lastOp'.topic} ELSE {}))]_vars

\* C24: while the adapter is mounted, subscribedTopics lists the topics of
\* the subscription registry's entry for the current panel id, in the same
\* order
C24_SubscribedTopics ==
    mounted
      => subscribedTopics
           = [n \in 1..Len(subscriptions[panelId]) |->
                 subscriptions[panelId][n].topic]

\* C25: every render function that a step invokes was registered by the
\* panel instance that lives after that step: a step that re-initializes
\* the panel invokes none, and neither does a later step before the new
\* instance has set onRender, so no pause token is acquired for a render
\* function of a torn-down instance
C25_OldRenderFn ==
    [][\A i \in (Len(invocations) + 1)..Len(invocations') :
           /\ invocations'[i].fn = Len(contexts')
           /\ Len(contexts') = Len(contexts)]_vars

\* The panel ids of the panel instances that were torn down and whose id no
\* living instance uses
TornDownIds ==
    {id \in PanelIds : /\ \E k \in 1..Len(contexts) : contexts[k].panelId = id
                       /\ ~mounted \/ id # panelId}

\* C26: once a panel instance is torn down, the subscription and publisher
\* registries of its panel id stay empty: no step, a subscribe, advertise or
\* unadvertise through the context of the torn-down instance included, makes
\* an empty registry of a torn-down panel id non-empty
C26_TornDownStaysEmpty ==
    [][\A id \in TornDownIds :
          /\ (subscriptions[id] = <<>>) => (subscriptions'[id] = <<>>)
          /\ (publishers[id] = <<>>) => (publishers'[id] = <<>>)]_vars

====
